---- MODULE Spec2Model ----
(***************************************************************************)
(* Content pipeline: the orchestrator (EnhancedContentWorkflow.run), the   *)
(* process-wide progress emitter, the S3 job store of the async Lambda     *)
(* handler, the POST /api/workflow route of the three transports (async    *)
(* Lambda, Express server, SSE Lambda), the Socket.IO connections and POST *)
(* /api/generate of the Express server, the synchronous paths of the       *)
(* Lambda handler, runBatch, and the cleaning of the HTML stage's text.    *)
(*                                                                         *)
(* Granularity.  The code runs on the Node.js event loop: the code between *)
(* two awaits runs without interleaving.  Every action below is one such   *)
(* run-to-completion piece: it starts where a remote call (LLM or S3)      *)
(* returns and ends where the next one is issued.  The continuation of an  *)
(* awaiting caller runs in the same microtask drain as the return of the   *)
(* async function it awaits, so it belongs to the same action.             *)
(*                                                                         *)
(* Files.  The writes to the local file system (saveToFile, the index      *)
(* page) are synchronous and are taken to succeed; the remote calls (LLM,  *)
(* S3) may throw.                                                          *)
(***************************************************************************)
EXTENDS Integers, Sequences, FiniteSets, TLC

\* Bound: number of pipeline runs started in a behaviour of SpecRun (library
\* calls) and of SpecJobs (async jobs accepted).
MaxRuns == 2

\* Bound: number of pipeline runs started in a behaviour of Spec, where every
\* route is requested with every body.
MaxServed == 1

\* Bound: number of topics given to runBatch.
MaxBatch == 3

\* Bound: number of tokens of the text the model returns to the HTML stage.
MaxHtmlLen == 3

\* Bound: number of start-workflow messages with a blank topic a socket
\* sends in a behaviour.
MaxBlank == 1

VARIABLES
  proc,       \* which deployment this process is: "lambda" | "express" | "sse" | "lib"
  runs,       \* sequence of pipeline runs, in order of creation
  listeners,  \* listeners registered on the process-wide agentEmitter
  store,      \* S3 bucket: key jobs/{id}.json -> stored record
  writes,     \* history: statuses written under each key, in order
  posting,    \* async POST handlers awaiting their initial PutObject
  nextJob,    \* number of job ids generated so far
  resp,       \* the HTTP response returned by the step just taken, if any
  emitter,    \* globalEmitter is set (setGlobalEmitter was called)
  lastSeen,   \* history: body of the last 200 answer of GET /api/status/{id}
  repolled,   \* history: ids polled again (200) after a terminal record was seen
  files,      \* files written by runs with saveFiles
  sockets,    \* Socket.IO connections of the Express server
  batch,      \* the call of runBatch in progress, if any
  now,        \* the clock new Date() reads
  apiKey,     \* OPENAI_API_KEY is set in the environment of the process
  booted      \* "starting" | "serving" | "exited": where the process is

vars == <<proc, runs, listeners, store, writes, posting, nextJob,
          resp, emitter, lastSeen, repolled, files, sockets, batch,
          now, apiKey, booted>>

----------------------------------------------------------------------------
\* Texts are sequences of tokens; topics and ids are sequences of characters.

NoText == <<>>

Whitespace == {" ", "\n"}

RECURSIVE TrimStart(_)
TrimStart(s) ==
  IF s # <<>> /\ Head(s) \in Whitespace THEN TrimStart(Tail(s)) ELSE s

RECURSIVE TrimEnd(_)
TrimEnd(s) ==
  IF s # <<>> /\ s[Len(s)] \in Whitespace
  THEN TrimEnd(SubSeq(s, 1, Len(s) - 1))
  ELSE s

\* String.prototype.trim
Trim(s) == TrimEnd(TrimStart(s))

\* Request bodies: unparsable JSON, JSON without a topic, JSON with a topic.
Topics == {<<>>, <<" ">>, <<"a">>, <<" ", "b">>}

BadJson == [json |-> FALSE, hasTopic |-> FALSE, topic |-> <<>>]

Bodies ==
  {BadJson, [json |-> TRUE, hasTopic |-> FALSE, topic |-> <<>>]}
    \cup {[json |-> TRUE, hasTopic |-> TRUE, topic |-> t] : t \in Topics}

\* !topic || topic.trim() === ''
TopicIsBlank(b) == ~b.hasTopic \/ b.topic = <<>> \/ Trim(b.topic) = <<>>

\* An optional boolean of an options object or a request body: not given,
\* true or false.
OptionValues == {"unset", "true", "false"}

\* const { option = dflt } = options
OptionUnsetIsFalse(opt, dflt) == opt = "true"
Option(opt, dflt) == IF opt = "unset" THEN dflt ELSE opt = "true"

----------------------------------------------------------------------------
\* Job identifiers and the status route.

\* randomUUID(): the n-th identifier generated; distinct for distinct n.
RECURSIVE Uuid(_)
Uuid(n) == IF n = 0 THEN <<>> ELSE Append(Uuid(n - 1), "u")

\* The class [\w-] over the characters used here.
WordOrHyphen == {"u", "f", "0", "_", "-"}

\* Identifiers a client may put in GET /api/status/{id}.
PollIds ==
  {Uuid(n) : n \in 1..MaxRuns}
    \cup {<<"f", "0">>, <<"f", "-", "0">>, <<"f", ".", "0">>}

\* event.path.match(/^\/api\/status\/[\w-]+$/)
MatchesStatusPathAny(id) == TRUE
MatchesStatusPath(id) ==
  Len(id) >= 1 /\ \A i \in 1..Len(id) : id[i] \in WordOrHyphen

\* Key: `jobs/${jobId}.json`
RecordKeyFixed(jobId) == Uuid(1)
RecordKey(jobId) == jobId

NoRecord == [status |-> "none"]

Terminal(rec) == rec.status \in {"completed", "failed"}

----------------------------------------------------------------------------
\* The pipeline.

Stages == <<"research", "writer", "editor", "seo", "publisher", "html">>

NoMeta ==
  [title |-> NoText, slug |-> NoText, metaDescription |-> NoText,
   keywords |-> <<>>, wordCount |-> 0, readingTime |-> 0]

NoSeo ==
  [optimizedContent |-> NoText, metaDescription |-> NoText,
   keywords |-> <<>>, slug |-> NoText]

NoMarkdown == [formattedContent |-> NoText, metadata |-> NoMeta]

\* htmlOutput before (or without) the HTML stage: undefined
NoHtml ==
  [present |-> FALSE, htmlContent |-> NoText, filePath |-> NoText,
   metadata |-> NoMeta]

NoOut ==
  [research |-> NoText, draft |-> NoText, edited |-> NoText, seo |-> NoSeo,
   markdown |-> NoMarkdown, html |-> NoHtml]

\* The text the remote model returns to the call of stage k: an opaque text,
\* told apart from the text of every other stage.
Reply(k) == <<"reply", Stages[k]>>

\* The section markers of the response format the SEO prompt asks for.
SeoMarkers ==
  {"[OPTIMIZED CONTENT]", "[META DESCRIPTION]", "[KEYWORDS]",
   "[SEO RECOMMENDATIONS]", "[SLUG]"}

\* The tokens of a text that hold the character '[': the section markers and
\* a Markdown link, each of which begins with it.
BracketTokens == SeoMarkers \cup {"[a](u)"}

\* text.indexOf(t, from) for a token t of `tokens`: the first position at or
\* after `from` holding one; 0 stands for -1.
IndexOf(text, tokens, from) ==
  LET at == {i \in from..Len(text) : text[i] \in tokens}
  IN  IF at = {} THEN 0 ELSE CHOOSE i \in at : \A j \in at : i <= j

\* SEOAgent.extractSection, sectionName given by its marker '[' + name + ']'.
ExtractSection(text, startMarker) ==
  LET startIndex == IndexOf(text, {startMarker}, 1)
      contentStart == startIndex + 1
      nextSectionIndex == IndexOf(text, BracketTokens, contentStart)
  IN  IF startIndex = 0 THEN text
      ELSE IF nextSectionIndex = 0
      THEN Trim(SubSeq(text, contentStart, Len(text)))
      ELSE Trim(SubSeq(text, contentStart, nextSectionIndex - 1))

\* text.split(/[,\n]/)
RECURSIVE SplitKeywords(_)
SplitKeywords(text) ==
  IF text = <<>> THEN << <<>> >>
  ELSE LET rest == SplitKeywords(Tail(text))
       IN  IF Head(text) \in {",", "\n"} THEN << <<>> >> \o rest
           ELSE << <<Head(text)>> \o Head(rest) >> \o Tail(rest)

\* .map(k => k.trim()).filter(k => k.length > 0)
RECURSIVE TrimmedNonEmpty(_)
TrimmedNonEmpty(pieces) ==
  IF pieces = <<>> THEN <<>>
  ELSE IF Trim(Head(pieces)) = <<>> THEN TrimmedNonEmpty(Tail(pieces))
  ELSE <<Trim(Head(pieces))>> \o TrimmedNonEmpty(Tail(pieces))

\* SEOAgent.parseKeywords: at most five keywords
ParseKeywords(keywordsText) ==
  LET ks == TrimmedNonEmpty(SplitKeywords(keywordsText))
  IN  SubSeq(ks, 1, IF Len(ks) < 5 THEN Len(ks) ELSE 5)

\* SEOAgent.optimize: the fields extracted from the model's response.
SeoParse(output) ==
  [optimizedContent |-> ExtractSection(output, "[OPTIMIZED CONTENT]"),
   metaDescription |-> ExtractSection(output, "[META DESCRIPTION]"),
   keywords |-> ParseKeywords(ExtractSection(output, "[KEYWORDS]")),
   slug |-> ExtractSection(output, "[SLUG]")]

\* The characters [a-z0-9] and the upper-case letters over the characters
\* used here.
LowerAlnum == {"a", "b", "0"}

\* String.prototype.toLowerCase, one character
ToLowerCase(c) == CASE c = "A" -> "a" [] c = "B" -> "b" [] OTHER -> c

\* .toLowerCase().replace(/[^a-z0-9]+/g, '-'): every run of other characters
\* becomes one hyphen.
RECURSIVE Hyphenate(_, _)
Hyphenate(s, inRun) ==
  IF s = <<>> THEN <<>>
  ELSE IF ToLowerCase(Head(s)) \in LowerAlnum
  THEN <<ToLowerCase(Head(s))>> \o Hyphenate(Tail(s), FALSE)
  ELSE IF inRun THEN Hyphenate(Tail(s), TRUE)
  ELSE <<"-">> \o Hyphenate(Tail(s), TRUE)

\* .replace(/^-+|-+$/g, '')
RECURSIVE StripHyphens(_)
StripHyphens(s) ==
  IF s # <<>> /\ Head(s) = "-" THEN StripHyphens(Tail(s))
  ELSE IF s # <<>> /\ s[Len(s)] = "-"
  THEN StripHyphens(SubSeq(s, 1, Len(s) - 1))
  ELSE s

\* PublisherAgent.createSlug
CreateSlug(topic) == StripHyphens(Hyphenate(topic, FALSE))

\* content.split(/\s+/).length: one more than the runs of whitespace; a
\* "paragraph" token stands for 200 words separated by single spaces, which
\* hold 199 runs of whitespace.
WordCount(content) ==
  1 + Cardinality({i \in DOMAIN content :
                     /\ content[i] \in Whitespace
                     /\ (i = 1 \/ content[i - 1] \notin Whitespace)})
    + 199 * Cardinality({i \in DOMAIN content : content[i] = "paragraph"})

\* Math.round(wordCount / 200)
RoundPer200(wordCount) == (wordCount + 100) \div 200

\* Math.ceil(wordCount / 200)
CeilPer200(wordCount) == (wordCount + 199) \div 200

\* PublisherAgent.estimateReadingTime
EstimateReadingTime(content) ==
  IF RoundPer200(WordCount(content)) > 1
  THEN RoundPer200(WordCount(content)) ELSE 1

\* PublisherAgent.publish: the result built from its arguments and the
\* model's response v.
PublisherResult(v, content, topic, metaDescription, keywords, slug) ==
  [formattedContent |-> v,
   metadata |-> [title |-> topic,
                 slug |-> IF slug = NoText THEN CreateSlug(topic) ELSE slug,
                 metaDescription |-> metaDescription, keywords |-> keywords,
                 wordCount |-> WordCount(content),
                 readingTime |-> EstimateReadingTime(content)]]

\* The tokens of the texts the model may return to the HTML stage.  The
\* Markdown code fence (three backquotes) is written ~~~.
HtmlTokens ==
  {"~~~html", "~~~", "\n", " ", "<!DOCTYPE html>", "<!doctype html>",
   "<html>", "text"}

RECURSIVE TextsOfLen(_)
TextsOfLen(n) ==
  IF n = 0 THEN {<<>>}
  ELSE {Append(s, t) : s \in TextsOfLen(n - 1), t \in HtmlTokens}

\* The texts the model may return to the HTML stage.
HtmlReplies == UNION {TextsOfLen(n) : n \in 1..MaxHtmlLen}

\* s.replace(/<fence>\n?/g, ''): every fence goes, with the newline that
\* directly follows it.
RECURSIVE StripFence(_, _)
StripFence(fence, s) ==
  IF s = <<>> THEN <<>>
  ELSE IF Head(s) = fence
  THEN IF Len(s) >= 2 /\ s[2] = "\n"
       THEN StripFence(fence, SubSeq(s, 3, Len(s)))
       ELSE StripFence(fence, Tail(s))
  ELSE <<Head(s)>> \o StripFence(fence, Tail(s))

\* htmlContent.toLowerCase().includes('<!doctype')
HasDoctype(s) ==
  \E i \in DOMAIN s : s[i] \in {"<!DOCTYPE html>", "<!doctype html>"}

\* if (!htmlContent.toLowerCase().includes('<!doctype')) prepend the DOCTYPE
EnsureDoctype(s) ==
  IF HasDoctype(s) THEN s ELSE <<"<!DOCTYPE html>", "\n">> \o s

\* The htmlContent made of the model's response v.
CleanHtml(v) ==
  EnsureDoctype(Trim(StripFence("~~~", StripFence("~~~html", v))))

\* HTMLPublisherAgent.publish / publishWithoutSaving
HtmlResult(v, markdownContent, metadata, saveFiles) ==
  [present |-> TRUE, htmlContent |-> CleanHtml(v),
   filePath |-> IF saveFiles THEN <<"output/html">> \o metadata.slug ELSE NoText,
   metadata |-> metadata]

\* The arguments run() passes to the remote call of stage k.
StageInputDraftToSeo(k, topic, out) ==
  CASE k = 1 -> <<topic>>
    [] k = 2 -> <<topic, out.research>>
    [] k = 3 -> <<out.draft>>
    [] k = 4 -> <<out.draft, topic>>
    [] k = 5 -> <<out.seo.optimizedContent, topic, out.seo.metaDescription,
                  out.seo.keywords, out.seo.slug>>
    [] OTHER -> <<out.markdown.formattedContent, out.markdown.metadata>>
StageInput(k, topic, out) ==
  CASE k = 1 -> <<topic>>
    [] k = 2 -> <<topic, out.research>>
    [] k = 3 -> <<out.draft>>
    [] k = 4 -> <<out.edited, topic>>
    [] k = 5 -> <<out.seo.optimizedContent, topic, out.seo.metaDescription,
                  out.seo.keywords, out.seo.slug>>
    [] OTHER -> <<out.markdown.formattedContent, out.markdown.metadata>>

\* What run() keeps of the value v returned by the call of stage k.
Absorb(k, v, topic, out, saveFiles) ==
  CASE k = 1 -> [out EXCEPT !.research = v]
    [] k = 2 -> [out EXCEPT !.draft = v]
    [] k = 3 -> [out EXCEPT !.edited = v]
    [] k = 4 -> [out EXCEPT !.seo = SeoParse(v)]
    [] k = 5 -> [out EXCEPT !.markdown =
                   PublisherResult(v, out.seo.optimizedContent, topic,
                                   out.seo.metaDescription, out.seo.keywords,
                                   out.seo.slug)]
    [] OTHER -> [out EXCEPT !.html =
                   HtmlResult(v, out.markdown.formattedContent,
                              out.markdown.metadata, saveFiles)]

\* The stage run() calls after stage k has returned; 0: none, run() returns.
NextStageSkipEditor(k, publishHTML) ==
  IF k = 2 THEN 4
  ELSE IF k < 5 THEN k + 1
  ELSE IF k = 5 /\ publishHTML THEN 6
  ELSE 0
NextStage(k, publishHTML) ==
  IF k < 5 THEN k + 1
  ELSE IF k = 5 /\ publishHTML THEN 6
  ELSE 0

\* The stage run() calls after the call of stage k has thrown; 0: none, the
\* rejection propagates out of run() (run() has no try/catch).
StageAfterFailureContinue(k, publishHTML) ==
  IF k < 5 THEN k + 1
  ELSE IF k = 5 /\ publishHTML THEN 6
  ELSE 0
StageAfterFailure(k, publishHTML) == 0

\* emitProgress(agent, status, ...): an 'agent-progress' event.  `by` is the
\* emitting run (history; the payload carries no run identity).
Progress(by, k, status) ==
  [type |-> "agent-progress", by |-> by, agent |-> Stages[k], status |-> status]

AnnounceTwice(by, k) ==
  <<Progress(by, k, "pending"), Progress(by, k, "active"),
    Progress(by, k, "active")>>
Announce(by, k) == <<Progress(by, k, "pending"), Progress(by, k, "active")>>

\* The error thrown by the failing call of each stage.
StageError == <<"research failed", "writer failed", "editor failed",
                "seo failed", "publisher failed", "html failed">>

\* A run of EnhancedContentWorkflow.run as it stands after the synchronous
\* start of run(): research announced and its call issued.
\*   kind    who awaits it: "async" (runWorkflowAsync), "sse", "lib"
\*   stage   index of the stage whose call is in flight
\*   pc      "calling" | "putCompleted" | "putFailed" | "done" | "unhandled"
\*   result  state of the promise run() returned
\*   calls, emitted, puts: history of the remote calls issued, the events
\*   published and the terminal writes attempted by this run
NewRun(kind, job, topic, publishHTML, saveFiles, collected) ==
  [kind |-> kind, job |-> job, topic |-> topic, publishHTML |-> publishHTML,
   saveFiles |-> saveFiles, stage |-> 1, pc |-> "calling",
   result |-> "pending", out |-> NoOut, error |-> "",
   progressEvents |-> collected, pending |-> NoRecord,
   calls |-> <<[stage |-> Stages[1], input |-> StageInput(1, topic, NoOut),
                ret |-> "pending", output |-> NoText]>>,
   emitted |-> <<>>, puts |-> <<>>]

\* The listeners a request registers for its run.
OwnListeners(r, events) == {[owner |-> r, event |-> e] : e \in events}

Collecting(rs, ls, i) ==
  /\ [owner |-> i, event |-> "agent-progress"] \in ls
  /\ rs[i].pc = "calling"

\* globalEmitter.emit('agent-progress', ...) for each event of evs, published
\* by run `by`: every registered agentListener appends it to the array of its
\* own request.  (The array of a request that has ended is unreachable and is
\* left as it is.)
RECURSIVE DeliverUpTo(_, _, _, _, _)
DeliverUpTo(rs, ls, by, evs, n) ==
  IF n = 0 THEN <<>>
  ELSE Append(DeliverUpTo(rs, ls, by, evs, n - 1),
              [rs[n] EXCEPT
                 !.emitted = IF n = by THEN @ \o evs ELSE @,
                 !.progressEvents =
                    IF Collecting(rs, ls, n) THEN @ \o evs ELSE @])

Deliver(rs, ls, by, evs) ==
  IF ~emitter THEN rs ELSE DeliverUpTo(rs, ls, by, evs, Len(rs))

\* The record written when the request is accepted.
InitialRecord(jobId, topic, startedAt) ==
  [jobId |-> jobId, topic |-> topic, status |-> "processing",
   startedAt |-> startedAt]

\* finalResult of runWorkflowAsync
CompletedRecord(jobId, topic, out, progressEvents) ==
  [jobId |-> jobId, topic |-> topic, status |-> "completed", success |-> TRUE,
   startedAt |-> now, completedAt |-> now,
   markdown |-> [content |-> out.markdown.formattedContent,
                 metadata |-> out.markdown.metadata],
   html |-> IF out.html.present
            THEN [content |-> out.html.htmlContent,
                  metadata |-> out.html.metadata]
            ELSE [content |-> NoText, metadata |-> NoMeta],
   hasHtml |-> out.html.present,
   progressEvents |-> progressEvents]

\* The record written by the catch block of runWorkflowAsync.
FailedRecordAsSuccess(jobId, topic, error) ==
  [jobId |-> jobId, topic |-> topic, status |-> "completed",
   success |-> TRUE, error |-> error, failedAt |-> now]
FailedRecord(jobId, topic, error) ==
  [jobId |-> jobId, topic |-> topic, status |-> "failed", success |-> FALSE,
   error |-> error, failedAt |-> now]

NoResp == [route |-> "", code |-> 0]

\* The Socket.IO connections a behaviour may see; a connection has its own
\* socket id and, once closed, is not opened again.
SocketIds == {"s1", "s2"}

\* The events a connection listens to on the process-wide emitter.
SocketEvents ==
  {"agent-progress", "status-update", "error", "workflow-complete"}

\* A connection: state "new" | "open" | "closed", the events for which a
\* listener of this connection is registered on the emitter, and history:
\* the events sent to it through the emitter, each by kind and by the run
\* it belongs to, and the number of error events the start-workflow handler
\* sent to it directly.
NewSocket ==
  [state |-> "new", listening |-> {}, received |-> {}, refused |-> 0]

\* agentEmitter.on(...) for the four listeners of connection s.
On(sk, s) == [sk EXCEPT ![s].listening = @ \cup SocketEvents]

\* agentEmitter.off(...) for the four listeners of connection s.
OffKeepsError(sk, s) ==
  [sk EXCEPT ![s].listening = @ \ (SocketEvents \ {"error"})]
Off(sk, s) == [sk EXCEPT ![s].listening = @ \ SocketEvents]

\* What a connection listening to the events of `on` keeps of the events evs
\* published on the emitter.
Heard(evs, on) ==
  {[type |-> evs[i].type, by |-> evs[i].by] :
     i \in {j \in DOMAIN evs : evs[j].type \in on}}

\* agentEmitter.emit(...) for each event of evs, as the listeners of the
\* connections see it: each of them sends the event to its own socket.
Forward(sk, evs) ==
  [s \in DOMAIN sk |->
     [sk[s] EXCEPT !.received = @ \cup Heard(evs, sk[s].listening)]]

\* No call of runBatch.
\*   pc       "idle" | "running" | "waiting" | "returned"
\*   at       index of the topic being processed
\*   results  the array runBatch builds and returns
NoBatch ==
  [pc |-> "idle", topics |-> <<>>, publishHTML |-> "unset", at |-> 0,
   results |-> <<>>]

----------------------------------------------------------------------------
\* Initial states: one process of one deployment, nothing requested yet.

\* The state of process p when it starts, with or without the API key.
Starting(p, key) ==
  /\ proc = p
  /\ apiKey = key
  /\ booted = "starting"
  /\ now = 0
  /\ emitter = TRUE
  /\ runs = <<>>
  /\ listeners = {}
  /\ store = [id \in PollIds |-> NoRecord]
  /\ writes = [id \in PollIds |-> <<>>]
  /\ posting = {}
  /\ nextJob = 0
  /\ resp = NoResp
  /\ lastSeen = [id \in PollIds |-> NoRecord]
  /\ repolled = {}
  /\ files = {}
  /\ sockets = [s \in SocketIds |-> NewSocket]
  /\ batch = NoBatch

\* The state of process p once it has started with the API key set.
InitOf(p) ==
  /\ proc = p
  /\ apiKey = TRUE
  /\ booted = "serving"
  /\ now = 0
  /\ emitter \in IF p = "lib" THEN BOOLEAN ELSE {TRUE}
  /\ runs = <<>>
  /\ listeners = {}
  /\ store = [id \in PollIds |-> NoRecord]
  /\ writes = [id \in PollIds |-> <<>>]
  /\ posting = {}
  /\ nextJob = 0
  /\ resp = NoResp
  /\ lastSeen = [id \in PollIds |-> NoRecord]
  /\ repolled = {}
  /\ files = {}
  /\ sockets = [s \in SocketIds |-> NewSocket]
  /\ batch = NoBatch

----------------------------------------------------------------------------
\* The orchestrator.

\* The events the handlers publish or send themselves.
StatusStarting(r) ==
  [type |-> "status-update", by |-> r, agent |-> "", status |-> "starting"]

WorkflowComplete(r) ==
  [type |-> "workflow-complete", by |-> r, agent |-> "", status |-> ""]

ErrorEventAsComplete(r, message) ==
  [type |-> "workflow-complete", by |-> r, agent |-> "", status |-> ""]
ErrorEvent(r, message) ==
  [type |-> "error", by |-> r, agent |-> "", status |-> message]

\* The body of a successful answer of the Lambda handler's synchronous paths
\* (direct invocation, POST /api/workflow-sync).
SyncBody(topic, out, progressEvents) ==
  [success |-> TRUE, topic |-> topic,
   markdown |-> [content |-> out.markdown.formattedContent,
                 metadata |-> out.markdown.metadata],
   html |-> IF out.html.present
            THEN [content |-> out.html.htmlContent,
                  metadata |-> out.html.metadata]
            ELSE [content |-> NoText, metadata |-> NoMeta],
   hasHtml |-> out.html.present,
   progressEvents |-> progressEvents]

\* The body of a successful answer of POST /api/generate.
GenerateBody(topic, out, saveToFile) ==
  [success |-> TRUE, topic |-> topic,
   markdown |-> [content |-> out.markdown.formattedContent,
                 metadata |-> out.markdown.metadata],
   html |-> IF out.html.present
            THEN [content |-> out.html.htmlContent,
                  metadata |-> out.html.metadata,
                  filePath |-> IF saveToFile THEN out.html.filePath
                               ELSE <<"null">>]
            ELSE [content |-> NoText, metadata |-> NoMeta,
                  filePath |-> <<"null">>],
   hasHtml |-> out.html.present,
   metadata |-> [title |-> out.markdown.metadata.title,
                 slug |-> out.markdown.metadata.slug,
                 description |-> out.markdown.metadata.metaDescription,
                 keywords |-> out.markdown.metadata.keywords,
                 wordCount |-> out.markdown.metadata.wordCount,
                 readingTime |->
                   CeilPer200(out.markdown.metadata.wordCount)]]

\* runBatch: the index of the topic the loop processes after topic `at` of n
\* (0: the loop is over); a failed run is caught and logged, and the loop
\* goes on.
NextTopicAbortOnFailure(at, n, failed) ==
  IF failed THEN 0 ELSE IF at < n THEN at + 1 ELSE 0
NextTopic(at, n, failed) == IF at < n THEN at + 1 ELSE 0

\* runBatch: results after the run of a topic has ended; only the result of
\* a successful run is pushed.
KeptResults(results, ok, out) ==
  IF ok THEN Append(results, [markdown |-> out.markdown, html |-> out.html])
  ELSE results

\* runBatch after the run of topic b.at has ended: either it waits two
\* seconds before the next topic, or the loop is over and it returns.
BatchAfterRun(b, ok, out) ==
  LET nt == NextTopic(b.at, Len(b.topics), ~ok) IN
  [b EXCEPT !.results = KeptResults(@, ok, out),
            !.pc = IF nt = 0 THEN "returned" ELSE "waiting"]

\* options.publishHTML && results.some(r => r.html)
IndexPageWanted(b) ==
  /\ b.publishHTML = "true"
  /\ \E i \in DOMAIN b.results : b.results[i].html.present

\* What the awaiting caller does when run() resolves, by kind of caller.
\*   async:  runWorkflowAsync removes its listeners and issues the write of
\*           finalResult;
\*   sse:    the handler appends workflow-complete and done, removes its
\*           listeners and returns the stream with status 200;
\*   sync, direct: the handler removes its listeners and returns the result
\*           with the events it collected;
\*   gen:    POST /api/generate returns the result;
\*   ws:     the start-workflow handler publishes workflow-complete;
\*   batch:  runBatch pushes the result and goes on;
\*   lib:    the caller has the result.
\* sk: the sockets after the run's last progress events were forwarded.
Resolved(r, rs, sk) ==
  LET run == rs[r] IN
  CASE run.kind = "async" ->
         /\ runs' = [rs EXCEPT
                       ![r].result = "resolved",
                       ![r].pc = "putCompleted",
                       ![r].pending =
                          CompletedRecord(run.job, run.topic, run.out,
                                          run.progressEvents)]
         /\ listeners' = listeners \
              OwnListeners(r, {"agent-progress", "status-update"})
         /\ resp' = NoResp
         /\ sockets' = sk
         /\ UNCHANGED batch
    [] run.kind = "sse" ->
         LET body == run.progressEvents \o
                       <<[type |-> "workflow-complete", by |-> r,
                          agent |-> "", status |-> ""],
                         [type |-> "done", by |-> r, agent |-> "",
                          status |-> ""]>>
         IN /\ runs' = [rs EXCEPT ![r].result = "resolved", ![r].pc = "done",
                                  ![r].progressEvents = body]
            /\ listeners' = listeners \
                 OwnListeners(r, {"agent-progress", "status-update", "error"})
            /\ resp' = [route |-> "POST /api/workflow", code |-> 200,
                        body |-> [stream |-> body]]
            /\ sockets' = sk
            /\ UNCHANGED batch
    [] run.kind \in {"sync", "direct"} ->
         /\ runs' = [rs EXCEPT ![r].result = "resolved", ![r].pc = "done"]
         /\ listeners' = listeners \
              OwnListeners(r, {"agent-progress", "status-update"})
         /\ resp' = [route |-> IF run.kind = "sync"
                               THEN "POST /api/workflow-sync" ELSE "direct",
                     code |-> IF run.kind = "sync" THEN 200 ELSE 0,
                     body |-> SyncBody(run.topic, run.out, run.progressEvents)]
         /\ sockets' = sk
         /\ UNCHANGED batch
    [] run.kind = "gen" ->
         /\ runs' = [rs EXCEPT ![r].result = "resolved", ![r].pc = "done"]
         /\ resp' = [route |-> "POST /api/generate", code |-> 200,
                     body |-> GenerateBody(run.topic, run.out, run.saveFiles)]
         /\ sockets' = sk
         /\ UNCHANGED <<listeners, batch>>
    [] run.kind = "ws" ->
         /\ runs' = [rs EXCEPT ![r].result = "resolved", ![r].pc = "done",
                               ![r].emitted = Append(@, WorkflowComplete(r))]
         /\ sockets' = Forward(sk, <<WorkflowComplete(r)>>)
         /\ resp' = NoResp
         /\ UNCHANGED <<listeners, batch>>
    [] run.kind = "batch" ->
         /\ runs' = [rs EXCEPT ![r].result = "resolved", ![r].pc = "done"]
         /\ batch' = BatchAfterRun(batch, TRUE, run.out)
         /\ resp' = NoResp
         /\ sockets' = sk
         /\ UNCHANGED listeners
    [] OTHER ->
         /\ runs' = [rs EXCEPT ![r].result = "resolved", ![r].pc = "done"]
         /\ resp' = NoResp
         /\ sockets' = sk
         /\ UNCHANGED <<listeners, batch>>

\* What the awaiting caller does when run() rejects with the error of stage k.
\*   async:  the catch block of runWorkflowAsync issues the write of the
\*           failed record (the listeners stay registered);
\*   sse:    the catch block returns one error message with status 500 (the
\*           listeners stay registered);
\*   sync, direct, gen: the catch block returns the error (the listeners of
\*           sync and direct stay registered);
\*   ws:     the catch block emits an error event; with no connection open
\*           the emitter has no 'error' listener, emit throws and the
\*           handler's promise rejects unhandled;
\*   batch:  runBatch logs the error and goes on;
\*   lib:    the caller has the rejection.
Rejected(r, rs, k) ==
  LET run == rs[r]
      failed == [rs EXCEPT ![r].result = "rejected",
                           ![r].error = StageError[k], ![r].pc = "done"]
  IN
  CASE run.kind = "async" ->
         /\ runs' = [rs EXCEPT
                       ![r].result = "rejected",
                       ![r].error = StageError[k],
                       ![r].pc = "putFailed",
                       ![r].pending =
                          FailedRecord(run.job, run.topic, StageError[k])]
         /\ resp' = NoResp
         /\ UNCHANGED <<listeners, sockets, batch>>
    [] run.kind = "sse" ->
         /\ runs' = failed
         /\ resp' = [route |-> "POST /api/workflow", code |-> 500,
                     body |-> [stream |-> <<[type |-> "error", by |-> r,
                                             agent |-> "",
                                             status |-> StageError[k]]>>]]
         /\ UNCHANGED <<listeners, sockets, batch>>
    [] run.kind \in {"sync", "direct", "gen"} ->
         /\ runs' = failed
         /\ resp' = [route |-> CASE run.kind = "sync" -> "POST /api/workflow-sync"
                                 [] run.kind = "gen" -> "POST /api/generate"
                                 [] OTHER -> "direct",
                     code |-> IF run.kind = "direct" THEN 0 ELSE 500,
                     body |-> [success |-> FALSE, error |-> StageError[k]]]
         /\ UNCHANGED <<listeners, sockets, batch>>
    [] run.kind = "ws" ->
         /\ runs' = [failed EXCEPT
                       ![r].emitted = Append(@, ErrorEvent(r, StageError[k])),
                       ![r].pc = IF \E s \in SocketIds :
                                      "error" \in sockets[s].listening
                                 THEN "done" ELSE "unhandled"]
         /\ sockets' = Forward(sockets, <<ErrorEvent(r, StageError[k])>>)
         /\ resp' = NoResp
         /\ UNCHANGED <<listeners, batch>>
    [] run.kind = "batch" ->
         /\ runs' = failed
         /\ batch' = BatchAfterRun(batch, FALSE, run.out)
         /\ resp' = NoResp
         /\ UNCHANGED <<listeners, sockets>>
    [] OTHER ->
         /\ runs' = failed
         /\ resp' = NoResp
         /\ UNCHANGED <<listeners, sockets, batch>>

\* The files run() has written once stage k has returned.
FilesAfterAlways(r, k, saveFiles) ==
  IF k = 5 THEN files \cup {<<r, "md">>}
  ELSE IF k = 6 THEN files \cup {<<r, "html">>}
  ELSE files
FilesAfter(r, k, saveFiles) ==
  IF saveFiles /\ k = 5 THEN files \cup {<<r, "md">>}
  ELSE IF saveFiles /\ k = 6 THEN files \cup {<<r, "html">>}
  ELSE files

\* The files written once run r, the last of a batch, has resolved: runBatch
\* creates the index page when it is wanted.
FilesAfterBatch(fs, r, b) ==
  IF b.pc = "returned" /\ IndexPageWanted(b)
  THEN fs \cup {<<r, "index">>}
  ELSE fs

\* The remote call of the stage in flight of run r returns the text v: run()
\* keeps it, publishes 'completed', and either announces the next stage and
\* issues its call, or returns.
StageReturns(r, v) ==
  /\ r \in DOMAIN runs
  /\ runs[r].pc = "calling"
  /\ LET run == runs[r]
         k == run.stage
         out1 == Absorb(k, v, run.topic, run.out, run.saveFiles)
         nk == NextStage(k, run.publishHTML)
         n == Len(run.calls)
         returned == [run.calls EXCEPT ![n].ret = "ok", ![n].output = v]
         run1 == [run EXCEPT
                    !.out = out1,
                    !.stage = IF nk = 0 THEN k ELSE nk,
                    !.calls =
                       IF nk = 0 THEN returned
                       ELSE Append(returned,
                                   [stage |-> Stages[nk],
                                    input |-> StageInput(nk, run.topic, out1),
                                    ret |-> "pending", output |-> NoText])]
         evs == <<Progress(r, k, "completed")>> \o
                  (IF nk = 0 THEN <<>> ELSE Announce(r, nk))
         rs1 == Deliver([runs EXCEPT ![r] = run1], listeners, r, evs)
         sk1 == IF emitter THEN Forward(sockets, evs) ELSE sockets
         fs1 == FilesAfter(r, k, run.saveFiles)
     IN IF nk = 0
        THEN /\ Resolved(r, rs1, sk1)
             /\ files' = IF run.kind = "batch"
                         THEN FilesAfterBatch(fs1, r, batch')
                         ELSE fs1
        ELSE /\ runs' = rs1
             /\ sockets' = sk1
             /\ resp' = NoResp
             /\ files' = fs1
             /\ UNCHANGED <<listeners, batch>>
  /\ UNCHANGED <<proc, now, apiKey, booted,
                 emitter, store, writes, posting, nextJob,
                 lastSeen, repolled>>

\* The remote call of the stage in flight of run r throws.
StageFails(r) ==
  /\ r \in DOMAIN runs
  /\ runs[r].pc = "calling"
  /\ LET run == runs[r]
         k == run.stage
         nk == StageAfterFailure(k, run.publishHTML)
         n == Len(run.calls)
         returned == [run.calls EXCEPT ![n].ret = "failed"]
         run1 == [run EXCEPT
                    !.stage = IF nk = 0 THEN k ELSE nk,
                    !.calls =
                       IF nk = 0 THEN returned
                       ELSE Append(returned,
                                   [stage |-> Stages[nk],
                                    input |-> StageInput(nk, run.topic, run.out),
                                    ret |-> "pending", output |-> NoText])]
         rs1 == [runs EXCEPT ![r] = run1]
     IN IF nk = 0
        THEN /\ Rejected(r, rs1, k)
             /\ files' = IF run.kind = "batch"
                         THEN FilesAfterBatch(files, r, batch')
                         ELSE files
        ELSE /\ runs' = rs1
             /\ resp' = NoResp
             /\ UNCHANGED <<listeners, sockets, batch, files>>
  /\ UNCHANGED <<proc, now, apiKey, booted,
                 emitter, store, writes, posting, nextJob,
                 lastSeen, repolled>>

\* A caller of the exported class calls run(topic, options) directly;
\* publishHTML and saveFiles default to true.
CallRun(topic, publishHTML, saveFiles) ==
  /\ proc = "lib"
  /\ batch.pc = "idle"
  /\ Len(runs) < MaxRuns
  /\ resp' = NoResp
  /\ LET r == Len(runs) + 1
         run0 == NewRun("lib", <<>>, topic, Option(publishHTML, TRUE),
                        Option(saveFiles, TRUE), <<>>)
     IN runs' = Deliver(Append(runs, run0), listeners, r, Announce(r, 1))
  /\ UNCHANGED <<proc, now, apiKey, booted,
                 emitter, listeners, store, writes, posting,
                 nextJob, lastSeen, repolled, files, sockets, batch>>

\* The run of the next topic of the batch, started by runBatch.
BatchRun(b, rs) ==
  LET r == Len(rs) + 1
      run0 == NewRun("batch", <<>>, b.topics[b.at],
                     Option(b.publishHTML, TRUE), TRUE, <<>>)
  IN Deliver(Append(rs, run0), listeners, r, Announce(r, 1))

\* A caller calls runBatch(topics, options): with no topic it returns the
\* empty array, otherwise it starts the run of the first topic.  The options
\* it passes on have no saveFiles, so every run saves its files.
CallRunBatch(topics, publishHTML) ==
  /\ proc = "lib"
  /\ batch.pc = "idle"
  /\ runs = <<>>
  /\ LET b == [NoBatch EXCEPT !.topics = topics, !.publishHTML = publishHTML]
     IN IF topics = <<>>
        THEN /\ batch' = [b EXCEPT !.pc = "returned"]
             /\ UNCHANGED runs
        ELSE /\ batch' = [b EXCEPT !.pc = "running", !.at = 1]
             /\ runs' = BatchRun(batch', runs)
  /\ resp' = NoResp
  /\ UNCHANGED <<proc, now, apiKey, booted,
                 emitter, listeners, store, writes, posting,
                 nextJob, lastSeen, repolled, files, sockets>>

\* The two-second timer between two topics of a batch fires: runBatch starts
\* the run of the next topic.
BatchTimerFires ==
  /\ batch.pc = "waiting"
  /\ batch' = [batch EXCEPT !.pc = "running", !.at = @ + 1]
  /\ runs' = BatchRun(batch', runs)
  /\ resp' = NoResp
  /\ UNCHANGED <<proc, now, apiKey, booted,
                 emitter, listeners, store, writes, posting,
                 nextJob, lastSeen, repolled, files, sockets>>

----------------------------------------------------------------------------
\* The async Lambda handler (POST /api/workflow, GET /api/status/{jobId},
\* unknown routes) and runWorkflowAsync.

TopicRequired == [success |-> FALSE, error |-> "Topic is required"]

\* POST /api/workflow up to its first await: parse, validate, generate the
\* job id, issue the PutObject of the initial record.
PostWorkflow(b, quota) ==
  /\ proc = "lambda"
  /\ IF ~b.json
     THEN /\ resp' = [route |-> "POST /api/workflow", code |-> 500,
                      body |-> [success |-> FALSE, error |-> "invalid json"]]
          /\ UNCHANGED <<posting, nextJob>>
     ELSE IF TopicIsBlank(b)
     THEN /\ resp' = [route |-> "POST /api/workflow", code |-> 400,
                      body |-> TopicRequired]
          /\ UNCHANGED <<posting, nextJob>>
     ELSE /\ nextJob < quota
          /\ nextJob' = nextJob + 1
          /\ posting' = posting \cup {[job |-> Uuid(nextJob + 1), body |-> b,
                                      startedAt |-> now]}
          /\ resp' = NoResp
  /\ UNCHANGED <<proc, now, apiKey, booted,
                 emitter, sockets, batch, runs, listeners, store, writes,
                 lastSeen, repolled, files>>

\* The PutObject of the initial record returns.  On success the record is
\* stored, runWorkflowAsync is called (it registers its listeners and runs up
\* to the research call) and the handler answers 202; on failure the handler
\* answers 500.
InitialWriteReturns(p, ok) ==
  /\ p \in posting
  /\ posting' = posting \ {p}
  /\ IF ok
     THEN LET key == RecordKey(p.job)
              r == Len(runs) + 1
              ls == listeners \cup
                      OwnListeners(r, {"agent-progress", "status-update"})
              run0 == NewRun("async", p.job, p.body.topic, TRUE, FALSE, <<>>)
          IN /\ store' = [store EXCEPT ![key] =
                            InitialRecord(p.job, p.body.topic, p.startedAt)]
             /\ writes' = [writes EXCEPT ![key] = Append(@, "processing")]
             /\ listeners' = ls
             /\ runs' = Deliver(Append(runs, run0), ls, r, Announce(r, 1))
             /\ resp' = [route |-> "POST /api/workflow", code |-> 202,
                         body |-> [success |-> TRUE, jobId |-> p.job,
                                   status |-> "processing"]]
     ELSE /\ resp' = [route |-> "POST /api/workflow", code |-> 500,
                      body |-> [success |-> FALSE, error |-> "store error"]]
          /\ UNCHANGED <<store, writes, listeners, runs>>
  /\ UNCHANGED <<proc, now, apiKey, booted,
                 emitter, sockets, batch, nextJob, lastSeen, repolled, files>>

\* Where runWorkflowAsync goes when the write of finalResult returns: the
\* write is inside the try block, so its failure enters the catch block.
AfterCompletedWriteAlwaysCatch(ok) == "putFailed"
AfterCompletedWrite(ok) == IF ok THEN "done" ELSE "putFailed"

\* The PutObject of finalResult returns.
CompletedWriteReturns(r, ok) ==
  /\ r \in DOMAIN runs
  /\ runs[r].pc = "putCompleted"
  /\ LET run == runs[r]
         key == RecordKey(run.job)
         pc1 == AfterCompletedWrite(ok)
     IN /\ runs' = [runs EXCEPT
                      ![r].pc = pc1,
                      ![r].puts = Append(@, [status |-> "completed", ok |-> ok]),
                      ![r].error = IF ok THEN @ ELSE "store error",
                      ![r].pending =
                         IF pc1 = "putFailed"
                         THEN FailedRecord(run.job, run.topic, "store error")
                         ELSE NoRecord]
        /\ IF ok
           THEN /\ store' = [store EXCEPT ![key] = run.pending]
                /\ writes' = [writes EXCEPT ![key] = Append(@, run.pending.status)]
           ELSE UNCHANGED <<store, writes>>
  /\ resp' = NoResp
  /\ UNCHANGED <<proc, now, apiKey, booted,
                 emitter, sockets, batch, listeners, posting, nextJob, lastSeen,
                 repolled, files>>

\* The PutObject of the failed record returns; if it throws, runWorkflowAsync
\* rejects and the handler's .catch logs the error.
FailedWriteReturns(r, ok) ==
  /\ r \in DOMAIN runs
  /\ runs[r].pc = "putFailed"
  /\ LET run == runs[r]
         key == RecordKey(run.job)
     IN /\ runs' = [runs EXCEPT
                      ![r].pc = "done",
                      ![r].puts = Append(@, [status |-> "failed", ok |-> ok]),
                      ![r].pending = NoRecord]
        /\ IF ok
           THEN /\ store' = [store EXCEPT ![key] = run.pending]
                /\ writes' = [writes EXCEPT ![key] = Append(@, run.pending.status)]
           ELSE UNCHANGED <<store, writes>>
  /\ resp' = NoResp
  /\ UNCHANGED <<proc, now, apiKey, booted,
                 emitter, sockets, batch, listeners, posting, nextJob, lastSeen,
                 repolled, files>>

\* The answer of GET /api/status/{id} when the store holds `rec` under the
\* key (NoRecord: GetObject throws NoSuchKey) and the read succeeds (readOk)
\* or throws another error.  A path the route's pattern does not match falls
\* through to the 404 of unknown routes.
StatusAnswer(id, rec, readOk) ==
  IF ~MatchesStatusPath(id)
  THEN [route |-> "GET /api/status", id |-> id, code |-> 404,
        body |-> [success |-> FALSE, error |-> "Not Found", path |-> id]]
  ELSE IF ~readOk
  THEN [route |-> "GET /api/status", id |-> id, code |-> 500,
        body |-> [success |-> FALSE, error |-> "store error"]]
  ELSE IF rec = NoRecord
  THEN [route |-> "GET /api/status", id |-> id, code |-> 404,
        body |-> [success |-> FALSE, error |-> "Job not found"]]
  ELSE [route |-> "GET /api/status", id |-> id, code |-> 200, body |-> rec]

\* GET /api/status/{id}
GetStatus(id, readOk) ==
  /\ proc = "lambda"
  /\ LET a == StatusAnswer(id, store[RecordKey(id)], readOk)
     IN /\ resp' = a
        /\ IF a.code = 200
           THEN /\ lastSeen' = [lastSeen EXCEPT ![id] = a.body]
                /\ repolled' = IF Terminal(lastSeen[id])
                               THEN repolled \cup {id}
                               ELSE repolled
           ELSE UNCHANGED <<lastSeen, repolled>>
  /\ UNCHANGED <<proc, now, apiKey, booted,
                 emitter, sockets, batch, runs, listeners, store, writes,
                 posting, nextJob, files>>

----------------------------------------------------------------------------
\* POST /api/workflow of the Express server: validation and an
\* acknowledgement; the run itself is started over the WebSocket.
ExpressPostWorkflow(b) ==
  /\ proc = "express"
  /\ b.json
  /\ resp' = IF TopicIsBlank(b)
             THEN [route |-> "POST /api/workflow", code |-> 400,
                      body |-> [error |-> "Topic is required"]]
             ELSE [route |-> "POST /api/workflow", code |-> 200,
                      body |-> [message |-> "Workflow started",
                             topic |-> b.topic]]
  /\ UNCHANGED <<proc, now, apiKey, booted,
                 emitter, sockets, batch, runs, listeners, store, writes,
                 posting, nextJob, lastSeen, repolled, files>>

\* POST /api/workflow of the SSE Lambda handler up to its first await.  The
\* handler returns only when the run has ended, and a Lambda execution
\* environment handles one invocation at a time.
SsePostWorkflow(b, quota) ==
  /\ proc = "sse"
  /\ \A i \in DOMAIN runs : runs[i].pc = "done"
  /\ IF ~b.json
     THEN /\ resp' = [route |-> "POST /api/workflow", code |-> 500,
                      body |-> [stream |-> <<[type |-> "error", by |-> 0,
                                              agent |-> "",
                                              status |-> "invalid json"]>>]]
          /\ UNCHANGED <<runs, listeners>>
     ELSE IF TopicIsBlank(b)
     THEN /\ resp' = [route |-> "POST /api/workflow", code |-> 400,
                      body |-> [error |-> "Topic is required"]]
          /\ UNCHANGED <<runs, listeners>>
     ELSE /\ Len(runs) < quota
          /\ LET r == Len(runs) + 1
                 ls == listeners \cup
                         OwnListeners(r, {"agent-progress", "status-update",
                                          "error"})
                 first == <<[type |-> "status-update", by |-> r,
                             agent |-> "", status |-> "starting"]>>
                 run0 == NewRun("sse", <<>>, b.topic, TRUE, FALSE, first)
             IN /\ listeners' = ls
                /\ runs' = Deliver(Append(runs, run0), ls, r, Announce(r, 1))
          /\ resp' = NoResp
  /\ UNCHANGED <<proc, now, apiKey, booted,
                 emitter, sockets, batch, store, writes, posting, nextJob,
                 lastSeen, repolled, files>>

----------------------------------------------------------------------------
\* The Express server: the Socket.IO connections and POST /api/generate.

\* A client connects: the server registers, on the process-wide emitter,
\* listeners that send agent-progress, status-update, error and
\* workflow-complete to this socket.
Connect(s) ==
  /\ proc = "express"
  /\ sockets[s].state = "new"
  /\ sockets' = On([sockets EXCEPT ![s].state = "open"], s)
  /\ resp' = NoResp
  /\ UNCHANGED <<proc, now, apiKey, booted,
                 emitter, batch, runs, listeners, store, writes,
                 posting, nextJob, lastSeen, repolled, files>>

\* The client disconnects: the listeners of its socket are removed.
Disconnect(s) ==
  /\ proc = "express"
  /\ sockets[s].state = "open"
  /\ sockets' = Off([sockets EXCEPT ![s].state = "closed"], s)
  /\ resp' = NoResp
  /\ UNCHANGED <<proc, now, apiKey, booted,
                 emitter, batch, runs, listeners, store, writes,
                 posting, nextJob, lastSeen, repolled, files>>

\* The client of socket s sends start-workflow with the data b.  A blank
\* topic is answered with an error event on this socket; otherwise the
\* handler publishes status-update 'starting' and calls run(), which runs
\* up to the research call.
StartWorkflow(s, b, quota) ==
  /\ proc = "express"
  /\ sockets[s].state = "open"
  /\ b.json
  /\ IF TopicIsBlank(b)
     THEN /\ sockets[s].refused < MaxBlank
          /\ sockets' = [sockets EXCEPT ![s].refused = @ + 1]
          /\ UNCHANGED runs
     ELSE /\ Len(runs) < quota
          /\ LET r == Len(runs) + 1
                 run0 == [NewRun("ws", <<s>>, b.topic, TRUE, FALSE, <<>>)
                            EXCEPT !.emitted = <<StatusStarting(r)>>]
                 evs == <<StatusStarting(r)>> \o Announce(r, 1)
             IN /\ runs' = Deliver(Append(runs, run0), listeners, r,
                                   Announce(r, 1))
                /\ sockets' = Forward(sockets, evs)
  /\ resp' = NoResp
  /\ UNCHANGED <<proc, now, apiKey, booted,
                 emitter, batch, listeners, store, writes, posting,
                 nextJob, lastSeen, repolled, files>>

\* POST /api/generate up to its first await: validation, then run() with
\* saveFiles: saveToFile (default false).  The handler registers no
\* listener.
ExpressGenerate(b, saveToFile, quota) ==
  /\ proc = "express"
  /\ b.json
  /\ IF TopicIsBlank(b)
     THEN /\ resp' = [route |-> "POST /api/generate", code |-> 400,
                      body |-> TopicRequired]
          /\ UNCHANGED <<runs, sockets>>
     ELSE /\ Len(runs) < quota
          /\ LET r == Len(runs) + 1
                 run0 == NewRun("gen", <<>>, b.topic, TRUE,
                                Option(saveToFile, FALSE), <<>>)
             IN /\ runs' = Deliver(Append(runs, run0), listeners, r,
                                   Announce(r, 1))
                /\ sockets' = Forward(sockets, Announce(r, 1))
          /\ resp' = NoResp
  /\ UNCHANGED <<proc, now, apiKey, booted,
                 emitter, batch, listeners, store, writes, posting,
                 nextJob, lastSeen, repolled, files>>

----------------------------------------------------------------------------
\* The synchronous paths of the Lambda handler.  The handler returns only
\* when the run has ended, and a Lambda execution environment handles one
\* invocation at a time.

\* POST /api/workflow-sync up to its first await: parse, validate, register
\* the listeners that collect the events, call run().
SyncPostWorkflow(b, quota) ==
  /\ proc = "lambda"
  /\ posting = {}
  /\ \A i \in DOMAIN runs : runs[i].pc = "done"
  /\ IF ~b.json
     THEN /\ resp' = [route |-> "POST /api/workflow-sync", code |-> 500,
                      body |-> [success |-> FALSE, error |-> "invalid json"]]
          /\ UNCHANGED <<runs, listeners>>
     ELSE IF TopicIsBlank(b)
     THEN /\ resp' = [route |-> "POST /api/workflow-sync", code |-> 400,
                      body |-> TopicRequired]
          /\ UNCHANGED <<runs, listeners>>
     ELSE /\ Len(runs) < quota
          /\ LET r == Len(runs) + 1
                 ls == listeners \cup
                         OwnListeners(r, {"agent-progress", "status-update"})
                 run0 == NewRun("sync", <<>>, b.topic, TRUE, FALSE, <<>>)
             IN /\ listeners' = ls
                /\ runs' = Deliver(Append(runs, run0), ls, r, Announce(r, 1))
          /\ resp' = NoResp
  /\ UNCHANGED <<proc, now, apiKey, booted,
                 emitter, sockets, batch, store, writes, posting,
                 nextJob, lastSeen, repolled, files>>

\* A direct invocation with the event b and its publishHTML field (default
\* true): the same without the HTTP wrapping.
DirectInvoke(b, publishHTML, quota) ==
  /\ proc = "lambda"
  /\ posting = {}
  /\ \A i \in DOMAIN runs : runs[i].pc = "done"
  /\ b.json
  /\ IF TopicIsBlank(b)
     THEN /\ resp' = [route |-> "direct", code |-> 0, body |-> TopicRequired]
          /\ UNCHANGED <<runs, listeners>>
     ELSE /\ Len(runs) < quota
          /\ LET r == Len(runs) + 1
                 ls == listeners \cup
                         OwnListeners(r, {"agent-progress", "status-update"})
                 run0 == NewRun("direct", <<>>, b.topic,
                                Option(publishHTML, TRUE), FALSE, <<>>)
             IN /\ listeners' = ls
                /\ runs' = Deliver(Append(runs, run0), ls, r, Announce(r, 1))
          /\ resp' = NoResp
  /\ UNCHANGED <<proc, now, apiKey, booted,
                 emitter, sockets, batch, store, writes, posting,
                 nextJob, lastSeen, repolled, files>>

----------------------------------------------------------------------------
\* Specifications.

\* A request body with a topic the validation accepts.
GoodBody == [json |-> TRUE, hasTopic |-> TRUE, topic |-> <<" ", "b">>]

\* The background work of the async Lambda deployment.
Worker ==
  \/ \E p \in posting, ok \in BOOLEAN : InitialWriteReturns(p, ok)
  \/ \E r \in DOMAIN runs : StageReturns(r, Reply(runs[r].stage))
  \/ \E r \in DOMAIN runs : StageFails(r)
  \/ \E r \in DOMAIN runs, ok \in BOOLEAN : CompletedWriteReturns(r, ok)
  \/ \E r \in DOMAIN runs, ok \in BOOLEAN : FailedWriteReturns(r, ok)

\* Async jobs running side by side in one Lambda process.
NextJobs ==
  \/ PostWorkflow(GoodBody, MaxRuns)
  \/ Worker

SpecJobs == InitOf("lambda") /\ [][NextJobs]_vars

\* The orchestrator called as a library.
NextRun ==
  \/ \E t \in Topics, h \in OptionValues, f \in OptionValues :
       CallRun(t, h, f)
  \/ \E r \in DOMAIN runs : StageReturns(r, Reply(runs[r].stage))
  \/ \E r \in DOMAIN runs : StageFails(r)

SpecRun == InitOf("lib") /\ [][NextRun]_vars

\* The arrays of topics given to runBatch: up to MaxBatch topics.
RECURSIVE TopicLists(_)
TopicLists(n) ==
  IF n = 0 THEN {<<>>}
  ELSE {Append(ts, t) : ts \in TopicLists(n - 1), t \in {<<"a">>, <<" ", "b">>}}

BatchTopics == UNION {TopicLists(n) : n \in 0..MaxBatch}

\* The orchestrator called as a library on a batch of topics.
NextBatch ==
  \/ \E ts \in BatchTopics, h \in OptionValues : CallRunBatch(ts, h)
  \/ BatchTimerFires
  \/ \E r \in DOMAIN runs : StageReturns(r, Reply(runs[r].stage))
  \/ \E r \in DOMAIN runs : StageFails(r)

SpecBatch == InitOf("lib") /\ [][NextBatch]_vars

\* The transports that hold the request or the connection until the run has
\* ended: the Express server with its sockets and POST /api/generate, and
\* the synchronous paths of the Lambda handler.
NextSync ==
  \/ \E s \in SocketIds : Connect(s)
  \/ \E s \in SocketIds : Disconnect(s)
  \/ \E s \in SocketIds, b \in Bodies : StartWorkflow(s, b, MaxServed)
  \/ \E b \in Bodies, f \in OptionValues : ExpressGenerate(b, f, MaxServed)
  \/ \E b \in Bodies : SyncPostWorkflow(b, MaxServed)
  \/ \E b \in Bodies, h \in OptionValues : DirectInvoke(b, h, MaxServed)
  \/ \E r \in DOMAIN runs : StageReturns(r, Reply(runs[r].stage))
  \/ \E r \in DOMAIN runs : StageFails(r)

InitSync == \E p \in {"express", "lambda"} : InitOf(p)

SpecSync == InitSync /\ [][NextSync]_vars

\* The entry points: the Express server, the two Lambda handlers, and the
\* command line in each of its modes.
EntryPoints ==
  {"express", "lambda", "sse", "cli-interactive", "cli-demo", "cli-topic",
   "cli-help"}

\* validateApiKeys(): loadConfig() throws when OPENAI_API_KEY is not set.
ValidateApiKeys(key) == key

\* The entry points that call validateApiKeys() before anything else.
ValidatesAtStart(p) == p \in {"cli-interactive", "cli-demo"}

\* The process starts: the Express server listens, a Lambda module is
\* loaded, the command line validates the key in interactive and demo mode,
\* prints the usage with --help, and goes straight to the workflow when the
\* topic is given as argument.
Startup ==
  /\ booted = "starting"
  /\ booted' = IF proc = "cli-help" THEN "exited"
               ELSE IF ValidatesAtStart(proc) /\ ~ValidateApiKeys(apiKey)
               THEN "exited"
               ELSE "serving"
  /\ resp' = NoResp
  /\ UNCHANGED <<proc, now, apiKey, emitter, sockets, batch, runs,
                 listeners, store, writes, posting, nextJob, lastSeen,
                 repolled, files>>

\* A process from its start, with or without the API key, and the requests
\* it serves that start no pipeline run.
NextBoot ==
  \/ Startup
  \/ /\ booted = "serving"
     /\ \/ \E b \in Bodies : ExpressPostWorkflow(b)
        \/ \E s \in SocketIds : Connect(s)
        \/ \E s \in SocketIds : Disconnect(s)
        \/ \E id \in PollIds, ok \in BOOLEAN : GetStatus(id, ok)

InitBoot == \E p \in EntryPoints, key \in BOOLEAN : Starting(p, key)

SpecBoot == InitBoot /\ [][NextBoot]_vars

\* Bound: the clock readings of a behaviour of SpecClock are 0..MaxClock.
MaxClock == 2

\* Time passes.
Tick ==
  /\ now < MaxClock
  /\ now' = now + 1
  /\ resp' = NoResp
  /\ UNCHANGED <<proc, apiKey, booted, emitter, sockets, batch, runs,
                 listeners, store, writes, posting, nextJob, lastSeen,
                 repolled, files>>

\* One async job of the Lambda handler while time passes.
NextClock ==
  \/ PostWorkflow(GoodBody, MaxServed)
  \/ Worker
  \/ Tick

SpecClock == InitOf("lambda") /\ [][NextClock]_vars

\* The texts the model may return to the call of stage k: any text to the
\* HTML stage, one fixed text to the others.
RepliesTo(k) == IF k = 6 THEN HtmlReplies ELSE {Reply(k)}

\* One run of the orchestrator with the HTML stage, whatever the model
\* returns to it.
NextHtml ==
  \/ \E f \in OptionValues : runs = <<>> /\ CallRun(<<"a">>, "true", f)
  \/ \E r \in DOMAIN runs :
       \E v \in RepliesTo(runs[r].stage) : StageReturns(r, v)
  \/ \E r \in DOMAIN runs : StageFails(r)

SpecHtml == InitOf("lib") /\ [][NextHtml]_vars

\* The HTTP routes of the three deployments, with every request body.
Next ==
  \/ \E b \in Bodies : PostWorkflow(b, MaxServed)
  \/ Worker
  \/ \E id \in PollIds, ok \in BOOLEAN : GetStatus(id, ok)
  \/ \E b \in Bodies : ExpressPostWorkflow(b)
  \/ \E b \in Bodies : SsePostWorkflow(b, MaxServed)

Init == \E p \in {"lambda", "express", "sse"} : InitOf(p)

Spec == Init /\ [][Next]_vars

\* A step of run r: the remote call it awaits (an LLM call, a PutObject)
\* returns or throws, and the run goes on to its next await.
RunStep(r) ==
  \/ StageReturns(r, Reply(runs[r].stage))
  \/ StageFails(r)
  \/ \E ok \in BOOLEAN : CompletedWriteReturns(r, ok)
  \/ \E ok \in BOOLEAN : FailedWriteReturns(r, ok)

\* The routes under the scheduling the runtime gives: every remote call
\* that was issued returns or throws, and the event loop runs the
\* continuation that awaits it.
FairSpec ==
  /\ Spec
  /\ WF_vars(\E p \in posting, ok \in BOOLEAN : InitialWriteReturns(p, ok))
  /\ \A r \in 1..MaxServed : WF_vars(RunStep(r))

----------------------------------------------------------------------------
\* Properties.

\* The runs started by runWorkflowAsync.
AsyncRuns == {r \in DOMAIN runs : runs[r].kind = "async"}

\* The terminal writes of run r that the store accepted.
OkPuts(r) == {i \in DOMAIN runs[r].puts : runs[r].puts[i].ok}

\* Every stage call of run r has returned (the async runs always render HTML).
AllStagesOk(r) ==
  /\ Len(runs[r].calls) = Len(Stages)
  /\ \A i \in DOMAIN runs[r].calls : runs[r].calls[i].ret = "ok"

\* A stage call of run r has thrown.
AStageFailed(r) == \E i \in DOMAIN runs[r].calls : runs[r].calls[i].ret = "failed"

\* The position in the pipeline of the stage an event names.
StageIndex(name) == CHOOSE k \in DOMAIN Stages : Stages[k] = name

\* C1: the record under a job's key changes only from absent to processing
\* and from processing to completed or failed; once a poll has returned a
\* completed or failed record, every later poll that returns a record of the
\* same id returns the identical record.
JobStatusMonotonic ==
  [][\A id \in PollIds :
       /\ store'[id] # store[id] =>
            \/ store[id] = NoRecord /\ store'[id].status = "processing"
            \/ store[id].status = "processing" /\ Terminal(store'[id])
       /\ Terminal(lastSeen[id]) => lastSeen'[id] = lastSeen[id]]_vars

\* C1, reached: a job whose terminal record was polled, and polled again.
JobRepolled ==
  \E id \in repolled : Terminal(store[id]) /\ lastSeen[id] = store[id]

\* C2, as the code has it: a run attempts the write of the completed record,
\* and the write of the failed record after a failed stage or a failed write
\* of the completed record; at most one of the two attempts is stored, the
\* key has the initial write plus the stored terminal writes, and the job has
\* left 'processing' exactly when one was stored.
TerminalWriteBounded ==
  \A r \in AsyncRuns :
    LET p == runs[r].puts
        id == runs[r].job
    IN /\ Cardinality(OkPuts(r)) <= 1
       /\ Len(p) <= 2
       /\ Len(p) = 2 =>
            /\ p[1] = [status |-> "completed", ok |-> FALSE]
            /\ p[2].status = "failed"
       /\ runs[r].pc = "done" => Len(p) >= 1
       /\ writes[id] = IF OkPuts(r) = {} THEN <<"processing">>
                       ELSE <<"processing", p[Len(p)].status>>
       /\ (store[id].status # "processing") <=> (OkPuts(r) # {})

AcceptedAfterInitialWrite ==
  /\ resp.code = 202 =>
       \E r \in AsyncRuns :
         /\ runs[r].job = resp.body.jobId
         /\ \A q \in AsyncRuns \ {r} : runs[q].job # runs[r].job
         /\ \E t \in 0..MaxClock :
              store[runs[r].job] =
                InitialRecord(runs[r].job, runs[r].topic, t)
         /\ writes[runs[r].job] = <<"processing">>
         /\ runs[r].result = "pending"
         /\ \A i \in DOMAIN runs[r].calls : runs[r].calls[i].ret = "pending"
  /\ \A r \in AsyncRuns :
       LET a == StatusAnswer(runs[r].job, store[RecordKey(runs[r].job)], TRUE)
       IN a.code = 200 /\ a.body.jobId = runs[r].job
  /\ \A id \in PollIds :
       \A i \in DOMAIN writes[id] : writes[id][i] = "processing" => i = 1

\* C3, reached: a second job is accepted with 202 while the first job's
\* record is terminal.
AcceptedBesideTerminal ==
  /\ resp.code = 202
  /\ resp.body.jobId = Uuid(2)
  /\ Terminal(store[Uuid(1)])

\* C4: the calls of a run are a prefix of research, writer, editor, seo,
\* publisher, html in that order; every call but the last has returned
\* successfully, so only the last can be in flight; html is called only if
\* enabled; a run that resolved has called every enabled stage once.
StageOrder ==
  \A r \in DOMAIN runs :
    LET c == runs[r].calls IN
    /\ Len(c) >= 1 /\ Len(c) <= Len(Stages)
    /\ \A i \in DOMAIN c : c[i].stage = Stages[i]
    /\ \A i \in DOMAIN c : i < Len(c) => c[i].ret = "ok"
    /\ Len(c) = Len(Stages) => runs[r].publishHTML
    /\ (runs[r].result = "pending") <=> (c[Len(c)].ret = "pending")
    /\ runs[r].result = "resolved" =>
         /\ c[Len(c)].ret = "ok"
         /\ Len(c) = IF runs[r].publishHTML THEN Len(Stages) ELSE Len(Stages) - 1

\* C4, reached: a run with HTML and a run without, both resolved.
BothBranchesResolved ==
  \E r, q \in DOMAIN runs :
    /\ runs[r].result = "resolved" /\ Len(runs[r].calls) = Len(Stages)
    /\ runs[q].result = "resolved" /\ Len(runs[q].calls) = Len(Stages) - 1

\* C5: the writer is called with the research output, the editor with the
\* draft, the SEO stage with the edited content, the publisher with the
\* fields of the SEO response, the HTML stage with the publisher's content
\* and metadata; the markdown a run returns is the publisher's result.
StageFeeding ==
  \A r \in DOMAIN runs :
    LET run == runs[r]
        c == run.calls
        seo == SeoParse(c[4].output)
        meta == [title |-> run.topic,
                 slug |-> IF seo.slug = NoText THEN CreateSlug(run.topic)
                          ELSE seo.slug,
                 metaDescription |-> seo.metaDescription,
                 keywords |-> seo.keywords,
                 wordCount |-> WordCount(seo.optimizedContent),
                 readingTime |-> EstimateReadingTime(seo.optimizedContent)]
    IN /\ c[1].input = <<run.topic>>
       /\ Len(c) >= 2 => c[2].input = <<run.topic, c[1].output>>
       /\ Len(c) >= 3 => c[3].input = <<c[2].output>>
       /\ Len(c) >= 4 => c[4].input = <<c[3].output, run.topic>>
       /\ Len(c) >= 5 =>
            c[5].input = <<seo.optimizedContent, run.topic,
                           seo.metaDescription, seo.keywords, seo.slug>>
       /\ Len(c) >= 6 => c[6].input = <<c[5].output, meta>>
       /\ run.result = "resolved" =>
            run.out.markdown = [formattedContent |-> c[5].output,
                                metadata |-> meta]

\* C5, reached: a run with the HTML stage has resolved.
FedThroughHtml ==
  \E r \in DOMAIN runs :
    /\ runs[r].result = "resolved"
    /\ Len(runs[r].calls) = Len(Stages)
    /\ runs[r].out.html.present

\* C6: a call that has thrown is the last call of its run and the only call
\* of its stage; the run has rejected with that stage's error and is over;
\* the run has published no 'completed' event of that stage and no event of
\* a later stage.
FailureAbsorbing ==
  \A r \in DOMAIN runs :
    \A i \in DOMAIN runs[r].calls :
      runs[r].calls[i].ret = "failed" =>
        /\ i = Len(runs[r].calls)
        /\ \A j \in DOMAIN runs[r].calls :
             runs[r].calls[j].stage = runs[r].calls[i].stage => j = i
        /\ runs[r].result = "rejected"
        /\ runs[r].error = StageError[i]
        /\ runs[r].pc = "done"
        /\ \A n \in DOMAIN runs[r].emitted :
             LET e == runs[r].emitted[n] IN
             /\ StageIndex(e.agent) <= i
             /\ ~(StageIndex(e.agent) = i /\ e.status = "completed")

\* C6, reached: with the emitter set, a run has failed at the editor.
EditorFailedWithEvents ==
  /\ emitter
  /\ \E r \in DOMAIN runs :
       /\ Len(runs[r].calls) = 3
       /\ runs[r].calls[3].ret = "failed"
       /\ runs[r].emitted # <<>>

\* C7, as stated: a run called with an empty or whitespace-only topic has
\* rejected, has issued no remote call and has published no event.
BlankTopicRejected ==
  \A r \in DOMAIN runs :
    (\A i \in DOMAIN runs[r].topic : runs[r].topic[i] = " ") =>
      /\ runs[r].result = "rejected"
      /\ runs[r].calls = <<>>
      /\ runs[r].emitted = <<>>

\* The bodies of the requests whose topic is missing, empty or
\* whitespace-only.
BlankBodies ==
  {b \in Bodies :
     b.json /\ (~b.hasTopic \/ \A i \in DOMAIN b.topic : b.topic[i] = " ")}

\* C8, as stated: in each of the three transports, POST /api/workflow with a
\* missing, empty or whitespace-only topic is answered 400 with the body
\* {success: false, error: "Topic is required"}, writes no record, starts no
\* run and registers no listener.
BlankTopicAnswer ==
  [][\A b \in BlankBodies :
       (\/ PostWorkflow(b, MaxServed)
        \/ ExpressPostWorkflow(b)
        \/ SsePostWorkflow(b, MaxServed)) =>
         /\ resp'.code = 400
         /\ resp'.body = [success |-> FALSE, error |-> "Topic is required"]
         /\ UNCHANGED <<store, writes, runs, listeners, posting, nextJob>>]_vars

\* The identifiers made of word characters and hyphens only.
WellFormedIds ==
  {id \in PollIds : \A i \in DOMAIN id : id[i] # "."}

\* C9, as the code has it: GET /api/status/{id} changes nothing but the
\* response; an id that is not made of word characters and hyphens gets the
\* 404 of unknown routes; otherwise a failed read of the store gets 500, an
\* id under which nothing was written gets 404 "Job not found", and an id
\* with a record gets 200 with exactly the stored record.
StatusPollAnswer ==
  [][\A id \in PollIds, ok \in BOOLEAN :
       GetStatus(id, ok) =>
         /\ UNCHANGED <<store, writes, runs, listeners, posting, nextJob>>
         /\ resp'.id = id
         /\ IF id \notin WellFormedIds
            THEN /\ resp'.code = 404
                 /\ resp'.body = [success |-> FALSE, error |-> "Not Found",
                                  path |-> id]
            ELSE IF ~ok
            THEN resp'.code = 500 /\ resp'.body.success = FALSE
            ELSE IF writes[id] = <<>>
            THEN /\ resp'.code = 404
                 /\ resp'.body = [success |-> FALSE, error |-> "Job not found"]
            ELSE /\ resp'.code = 200
                 /\ resp'.body = store[id]]_vars

\* C9, as stated: a poll whose read of the store succeeds is answered 404
\* "Job not found" for an id under which nothing was written, 200 with the
\* stored record otherwise, and changes nothing.
UnknownIdJobNotFound ==
  [][\A id \in PollIds :
       GetStatus(id, TRUE) =>
         /\ UNCHANGED <<store, writes, runs, listeners, posting, nextJob>>
         /\ IF writes[id] = <<>>
            THEN /\ resp'.code = 404
                 /\ resp'.body = [success |-> FALSE, error |-> "Job not found"]
            ELSE /\ resp'.code = 200
                 /\ resp'.body = store[id]]_vars

\* C9, reached: with a job accepted, an id with a dot has been polled and
\* answered by the unknown-route 404.
DottedIdPolled ==
  /\ runs # <<>>
  /\ resp.route = "GET /api/status"
  /\ resp.id = <<"f", ".", "0">>
  /\ resp.code = 404

\* C10, as the code has it: the record is 'completed' exactly when every
\* stage succeeded and the write of the completed record was stored, and then
\* carries success: true and the publisher's and the HTML stage's output; it
\* is 'failed' exactly when a stage failed or the write of the completed
\* record failed, and the write of the failed record was stored, and then
\* carries success: false and the error.
RecordReflectsOutcome ==
  \A r \in AsyncRuns :
    LET run == runs[r]
        rec == store[run.job]
        p == run.puts
        c == run.calls
    IN /\ (rec.status = "completed") <=>
            (AllStagesOk(r) /\ p # <<>> /\ p[1].ok)
       /\ rec.status = "completed" =>
            /\ rec.success = TRUE
            /\ rec.jobId = run.job
            /\ rec.markdown.content = c[5].output
            /\ rec.hasHtml
            /\ rec.html.content = CleanHtml(c[6].output)
       /\ (rec.status = "failed") <=>
            /\ AStageFailed(r) \/ (AllStagesOk(r) /\ p # <<>> /\ ~p[1].ok)
            /\ p # <<>>
            /\ p[Len(p)] = [status |-> "failed", ok |-> TRUE]
       /\ rec.status = "failed" =>
            /\ rec.success = FALSE
            /\ rec.jobId = run.job
            /\ rec.error = IF AStageFailed(r) THEN StageError[Len(c)]
                           ELSE "store error"

\* C10, as stated: a terminal record is 'completed' if and only if every
\* stage of the run succeeded, and 'failed' if and only if a stage failed.
RecordIffStages ==
  \A r \in AsyncRuns :
    LET rec == store[runs[r].job] IN
    Terminal(rec) =>
      /\ (rec.status = "completed") <=> AllStagesOk(r)
      /\ (rec.status = "failed") <=> AStageFailed(r)

\* C10, reached: every stage succeeded, the write of the completed record
\* failed, and the failed record is stored.
SucceededButFailedRecord ==
  \E r \in AsyncRuns :
    /\ AllStagesOk(r)
    /\ store[runs[r].job].status = "failed"

\* The number of calls among the first n of run r that have returned.
RECURSIVE ReturnedUpTo(_, _)
ReturnedUpTo(r, n) ==
  IF n = 0 THEN 0
  ELSE ReturnedUpTo(r, n - 1) + (IF runs[r].calls[n].ret = "ok" THEN 1 ELSE 0)

\* C13: with the notifier set, the events of a run in which no stage has
\* failed are, stage by stage in the order of the calls, 'pending' and
\* 'active' published when the call is issued and 'completed' once it has
\* returned: one 'active' and at most one 'completed' per call, the
\* 'completed' of a stage before every event of the next, nothing else.
ProgressInStageOrder ==
  \A r \in DOMAIN runs :
    (emitter /\ runs[r].kind = "lib" /\ ~AStageFailed(r)) =>
      LET e == runs[r].emitted
          c == runs[r].calls
          ev(i, st) == [type |-> "agent-progress", by |-> r,
                        agent |-> Stages[i], status |-> st]
      IN /\ Len(e) = 2 * Len(c) + ReturnedUpTo(r, Len(c))
         /\ \A i \in DOMAIN c :
              /\ c[i].stage = Stages[i]
              /\ e[3 * i - 2] = ev(i, "pending")
              /\ e[3 * i - 1] = ev(i, "active")
              /\ c[i].ret = "ok" => e[3 * i] = ev(i, "completed")

\* C13, reached: a run through all six stages has resolved with the
\* notifier set, its eighteen events published.
SixStagesAnnounced ==
  \E r \in DOMAIN runs :
    /\ emitter /\ runs[r].result = "resolved"
    /\ Len(runs[r].calls) = Len(Stages)
    /\ Len(runs[r].emitted) = 3 * Len(Stages)

\* The calls of the HTML stage run r has issued.
HtmlCalls(r) ==
  {i \in DOMAIN runs[r].calls : runs[r].calls[i].stage = "html"}

\* C18: a run with publishHTML false never calls the HTML stage and
\* publishes no 'html' event, and when it resolves it has called exactly
\* research, writer, editor, seo, publisher and returns no html; a run with
\* publishHTML true calls the HTML stage at most once, as its sixth call,
\* after the publisher's call has returned, and when it resolves it has
\* called it and returns the html; run() called without the option, or with
\* true, is a run with publishHTML true.
HtmlGatedByFlag ==
  /\ [](\A r \in DOMAIN runs :
         LET c == runs[r].calls
             e == runs[r].emitted
         IN /\ ~runs[r].publishHTML =>
                 /\ HtmlCalls(r) = {}
                 /\ \A i \in DOMAIN e : e[i].agent # "html"
                 /\ runs[r].result = "resolved" =>
                      /\ Len(c) = 5
                      /\ \A i \in 1..5 : c[i].stage = Stages[i]
                      /\ ~runs[r].out.html.present
            /\ runs[r].publishHTML =>
                 /\ HtmlCalls(r) \subseteq {6}
                 /\ HtmlCalls(r) = {6} =>
                      c[5].stage = "publisher" /\ c[5].ret = "ok"
                 /\ runs[r].result = "resolved" =>
                      /\ HtmlCalls(r) = {6}
                      /\ c[6].ret = "ok"
                      /\ runs[r].out.html.present)
  /\ [][\A t \in Topics, h \in OptionValues, f \in OptionValues :
         CallRun(t, h, f) =>
           runs'[Len(runs')].publishHTML = (h # "false")]_vars

\* C18, reached: a run without the HTML stage has resolved with no html,
\* and a run with it has resolved with the html.
GatedBothWays ==
  \E r, q \in DOMAIN runs :
    /\ runs[r].result = "resolved" /\ ~runs[r].publishHTML
    /\ ~runs[r].out.html.present /\ Len(runs[r].calls) = 5
    /\ runs[q].result = "resolved" /\ runs[q].publishHTML
    /\ runs[q].out.html.present /\ HtmlCalls(q) = {6}

\* C12, as stated: the progressEvents of the completed record of a job are
\* events published by the run of that job.
OwnEventsOnly ==
  \A r \in AsyncRuns :
    LET rec == store[RecordKey(runs[r].job)] IN
    rec.status = "completed" =>
      \A i \in DOMAIN rec.progressEvents : rec.progressEvents[i].by = r

\* C20, as stated: the htmlContent of a run that went through the HTML
\* stage starts with a DOCTYPE declaration.
DoctypeIsPrefix ==
  \A r \in DOMAIN runs :
    runs[r].out.html.present =>
      LET h == runs[r].out.html.htmlContent IN
      Len(h) >= 1 /\ h[1] \in {"<!DOCTYPE html>", "<!doctype html>"}

\* What run() returned for the runs among the first n that resolved, in the
\* order of the runs.
RECURSIVE ResolvedResults(_)
ResolvedResults(n) ==
  IF n = 0 THEN <<>>
  ELSE IF runs[n].result = "resolved"
  THEN Append(ResolvedResults(n - 1),
              [markdown |-> runs[n].out.markdown, html |-> runs[n].out.html])
  ELSE ResolvedResults(n - 1)

\* The runs of the batch that failed.
FailedRuns == {r \in DOMAIN runs : runs[r].result = "rejected"}

\* C16: runBatch runs the topics one at a time in input order, run i on
\* topic i, the next only once the one before has ended; it returns only
\* after a run of every topic, whatever failed, with the results of the
\* runs that succeeded in the order of their topics: with exactly one
\* failed run, N-1 results.
BatchSurvivesFailure ==
  batch.pc # "idle" =>
    /\ Len(runs) <= Len(batch.topics)
    /\ \A i \in DOMAIN runs :
         /\ runs[i].topic = batch.topics[i]
         /\ i < Len(runs) => runs[i].result # "pending"
    /\ batch.pc = "returned" =>
         /\ Len(runs) = Len(batch.topics)
         /\ \A i \in DOMAIN runs : runs[i].result # "pending"
         /\ batch.results = ResolvedResults(Len(runs))
         /\ Cardinality(FailedRuns) = 1 =>
              Len(batch.results) = Len(batch.topics) - 1

\* C16, reached: a batch of three topics has returned two results, the run
\* of the second topic having failed.
MiddleTopicFailed ==
  /\ batch.pc = "returned" /\ Len(batch.topics) = 3
  /\ FailedRuns = {2}
  /\ Len(batch.results) = 2
  /\ batch.topics[1] # batch.topics[3]

\* C17, as stated: the array runBatch returns is parallel to the topics.
ResultsParallelToTopics ==
  batch.pc = "returned" => Len(batch.results) = Len(batch.topics)

\* The runs started by a start-workflow message.
WsRuns == {r \in DOMAIN runs : runs[r].kind = "ws"}

\* C11, as stated: no socket other than the one that sent start-workflow
\* receives an event of the run it started.
EventsToRequesterOnly ==
  \A r \in WsRuns : \A s \in SocketIds :
    runs[r].job # <<s>> => \A e \in sockets[s].received : e.by # r

\* The positions of the terminal events among the events of run r.
TerminalEvents(r) ==
  {i \in DOMAIN runs[r].emitted :
     runs[r].emitted[i].type \in {"workflow-complete", "error"}}

\* C14: a run started by start-workflow has no terminal event while it is
\* in progress and, once it has ended, exactly one, emitted last, after
\* every agent-progress event: workflow-complete if every call returned,
\* error if a call failed.  A start-workflow message with a blank topic
\* starts no run and sends one error event to the socket it came from and
\* nothing to any other; one with a topic starts one run with that topic.
OneTerminalEvent ==
  /\ [](\A r \in WsRuns :
         LET e == runs[r].emitted IN
         IF runs[r].result = "pending" THEN TerminalEvents(r) = {}
         ELSE /\ TerminalEvents(r) = {Len(e)}
              /\ e[Len(e)].by = r
              /\ e[Len(e)].type = IF AStageFailed(r) THEN "error"
                                  ELSE "workflow-complete"
              /\ ~AStageFailed(r) =>
                   \A i \in DOMAIN runs[r].calls : runs[r].calls[i].ret = "ok")
  /\ [][\A s \in SocketIds, b \in Bodies :
          StartWorkflow(s, b, MaxServed) =>
            IF TopicIsBlank(b)
            THEN /\ runs' = runs
                 /\ sockets'[s].refused = sockets[s].refused + 1
                 /\ \A t \in SocketIds :
                      /\ sockets'[t].received = sockets[t].received
                      /\ t # s => sockets'[t] = sockets[t]
            ELSE /\ Len(runs') = Len(runs) + 1
                 /\ runs'[Len(runs')].kind = "ws"
                 /\ runs'[Len(runs')].topic = b.topic
                 /\ \A t \in SocketIds :
                      sockets'[t].refused = sockets[t].refused]_vars

\* C14, reached: a run started over a socket has failed and its error event
\* was emitted, after that socket had a blank topic refused.
WsRunFailedAfterRefusal ==
  \E r \in WsRuns : \E s \in SocketIds :
    /\ runs[r].result = "rejected" /\ runs[r].job = <<s>>
    /\ runs[r].emitted[Len(runs[r].emitted)].type = "error"
    /\ Len(runs[r].calls) >= 3
    /\ sockets[s].refused = 1

\* The answer just given is the successful answer of a synchronous
\* transport without WebSocket.
SyncSuccess ==
  /\ resp.route \in {"POST /api/generate", "POST /api/workflow-sync", "direct"}
  /\ resp.body.success

\* C15, as stated: the successful answer of a synchronous transport carries
\* the progress events of its run, all of them in the order published.
AnswerCarriesEvents ==
  SyncSuccess =>
    /\ "progressEvents" \in DOMAIN resp.body
    /\ resp.body.progressEvents = runs[Len(runs)].emitted

\* The files run r has written.
FilesOf(r) == {f \in files : f[1] = r}

\* C19: a run with saveFiles false writes no file at any point and the html
\* it returns has an empty filePath; the runs started over a socket or by
\* the Lambda handler's synchronous paths have saveFiles false, and so has
\* a run of POST /api/generate unless saveToFile is true; a run with
\* saveFiles true that resolved has written its files.
NoFileUnlessAsked ==
  /\ [](\A r \in DOMAIN runs :
         /\ ~runs[r].saveFiles =>
              /\ FilesOf(r) = {}
              /\ runs[r].out.html.present =>
                   runs[r].out.html.filePath = NoText
         /\ runs[r].kind \in {"ws", "sync", "direct"} => ~runs[r].saveFiles
         /\ (runs[r].saveFiles /\ runs[r].result = "resolved") =>
              FilesOf(r) = {<<r, "md">>, <<r, "html">>})
  /\ [][\A b \in Bodies, f \in OptionValues :
          (ExpressGenerate(b, f, MaxServed) /\ ~TopicIsBlank(b)) =>
            runs'[Len(runs')].saveFiles = (f = "true")]_vars

\* C19, reached: POST /api/generate without saveToFile has answered with
\* the html and no file exists.
GeneratedWithoutFiles ==
  /\ resp.route = "POST /api/generate" /\ resp.code = 200
  /\ ~runs[Len(runs)].saveFiles
  /\ runs[Len(runs)].out.html.present
  /\ runs[Len(runs)].out.html.filePath = NoText
  /\ files = {}

\* C23, as stated: once every run has ended, the emitter has no listener
\* left from any request.
NoListenerLeft ==
  (\A r \in DOMAIN runs : runs[r].pc = "done") => listeners = {}

\* The job ids generated so far whose initial write has failed: the request
\* is no longer awaiting the write and no run was started for it.
RefusedJobs ==
  {id \in {Uuid(n) : n \in 1..nextJob} :
     /\ \A p \in posting : p.job # id
     /\ \A r \in DOMAIN runs : runs[r].job # id}

\* C25: when the write of the initial record fails, the handler answers 500
\* with success false and starts no run, registers no listener and stores
\* nothing; no record is ever written under the id of such a job.
NoRecordAfterFailedAccept ==
  /\ [](\A id \in RefusedJobs :
         store[RecordKey(id)] = NoRecord /\ writes[RecordKey(id)] = <<>>)
  /\ [][\A p \in posting :
          InitialWriteReturns(p, FALSE) =>
            /\ resp'.code = 500 /\ resp'.body.success = FALSE
            /\ runs' = runs /\ listeners' = listeners
            /\ store' = store /\ writes' = writes
            /\ p.job \in RefusedJobs']_vars

\* C25, reached: the initial write of the first job failed and a later job
\* has run to its completed record.
RefusedThenCompleted ==
  /\ Uuid(1) \in RefusedJobs
  /\ store[RecordKey(Uuid(1))] = NoRecord
  /\ store[RecordKey(Uuid(2))].status = "completed"

\* C27, as stated: the write of a terminal record over the initial record
\* keeps its jobId and topic, and a completed record keeps its startedAt.
StartPreserved ==
  [][\A id \in PollIds :
       (store[id].status = "processing" /\ Terminal(store'[id])) =>
         /\ store'[id].jobId = store[id].jobId
         /\ store'[id].topic = store[id].topic
         /\ store'[id].status = "completed" =>
              store'[id].startedAt = store[id].startedAt]_vars

\* C24, as stated: the failure of a run started over a socket never escapes
\* the start-workflow handler.
FailureHandledInside ==
  \A r \in WsRuns : runs[r].pc # "unhandled"

\* C21, as stated: a batch that has returned a result with html has
\* created the index page.
IndexWhenHtml ==
  (/\ batch.pc = "returned"
   /\ \E i \in DOMAIN batch.results : batch.results[i].html.present)
    => \E f \in files : f[2] = "index"

\* C26: a connection has its four listeners on the emitter exactly while it
\* is open; a disconnect removes the four listeners of that connection and
\* changes nothing of any other; nothing is sent any more to a connection
\* that is closed.
ListenersFollowSockets ==
  /\ [](\A s \in SocketIds :
         sockets[s].listening =
           IF sockets[s].state = "open" THEN SocketEvents ELSE {})
  /\ [][\A s \in SocketIds :
          /\ Disconnect(s) =>
               /\ sockets'[s].listening = {}
               /\ \A t \in SocketIds \ {s} : sockets'[t] = sockets[t]
          /\ sockets[s].state = "closed" =>
               /\ sockets'[s] = sockets[s]]_vars

\* C26, reached: one connection has closed with events received, and the
\* other, still open, has received events the closed one has not.
ClosedSocketLeftBehind ==
  \E s, t \in SocketIds :
    /\ sockets[s].state = "closed" /\ sockets[s].received # {}
    /\ sockets[t].state = "open"
    /\ sockets[t].received \ sockets[s].received # {}
    /\ \E r \in DOMAIN runs : runs[r].result # "pending"

\* C22, as stated: a process started without the API key never gets to
\* serve: it answers no request and accepts no connection.
KeylessNeverServes ==
  ~apiKey =>
    /\ booted # "serving"
    /\ resp = NoResp
    /\ \A s \in SocketIds : sockets[s].state = "new"

----------------------------------------------------------------------------
\* The SEO stage, whatever the model returns to it.

\* One section of an SEO response as the prompt formats it: the marker on a
\* line of its own, the body, a blank line.
SeoSection(marker, body) == <<marker, "\n">> \o body \o <<"\n", "\n">>

\* The bodies the model may give the [OPTIMIZED CONTENT] section: a word, a
\* sentence with a Markdown link, and texts of 200, 201 and 400 words.
ContentBodies ==
  {<<"text">>,
   <<"text", " ", "[a](u)", " ", "text">>,
   <<"paragraph">>,
   <<"paragraph", "\n", "text">>,
   <<"paragraph", " ", "paragraph">>}

\* The bodies the model may give the [SLUG] section: a slug, a title, nothing.
SlugBodies == {<<"a", "-", "b">>, <<"A", " ", "b">>, <<>>}

\* A response to the SEO prompt; the model may leave out the
\* [OPTIMIZED CONTENT] or the [SLUG] section.
SeoReply(hasContent, content, hasSlug, slug) ==
  (IF hasContent THEN SeoSection("[OPTIMIZED CONTENT]", content) ELSE <<>>)
    \o SeoSection("[META DESCRIPTION]", <<"text">>)
    \o SeoSection("[KEYWORDS]", <<"text", ",", " ", "text">>)
    \o SeoSection("[SEO RECOMMENDATIONS]", <<"text">>)
    \o (IF hasSlug THEN SeoSection("[SLUG]", slug) ELSE <<>>)

\* The texts the model may return to the SEO stage.
SeoReplies ==
  {SeoReply(hc, c, hs, s) :
     hc \in BOOLEAN, c \in ContentBodies, hs \in BOOLEAN, s \in SlugBodies}

\* The texts the model may return to the call of stage k: a text in or out
\* of the prompted format to the SEO stage, one fixed text to the others.
SeoRepliesTo(k) == IF k = 4 THEN SeoReplies ELSE {Reply(k)}

\* One request of POST /api/generate, whatever the model returns to the SEO
\* stage.
NextSeo ==
  \/ \E b \in Bodies, f \in OptionValues : ExpressGenerate(b, f, MaxServed)
  \/ \E r \in DOMAIN runs :
       \E v \in SeoRepliesTo(runs[r].stage) : StageReturns(r, v)
  \/ \E r \in DOMAIN runs : StageFails(r)

SpecSeo == InitOf("express") /\ [][NextSeo]_vars

\* A response holds the five markers of the prompted format.
FollowsFormat(output) ==
  \A m \in SeoMarkers : IndexOf(output, {m}, 1) # 0

\* The text between the marker and the next marker of the format (or the
\* end of the response), without the surrounding whitespace.
SectionOfFormat(output, marker) ==
  LET start == IndexOf(output, {marker}, 1)
      next == IndexOf(output, SeoMarkers, start + 1)
  IN  Trim(SubSeq(output, start + 1,
                  IF next = 0 THEN Len(output) ELSE next - 1))

\* The runs whose SEO stage has returned.
SeoReturned ==
  {r \in DOMAIN runs :
     Len(runs[r].calls) >= 4 /\ runs[r].calls[4].ret = "ok"}

\* C28, as stated: of a response in the prompted format every extracted
\* section is the whole text between its marker and the next marker of the
\* format, so the optimized content handed to the publisher is the complete
\* [OPTIMIZED CONTENT] section even with a Markdown link in it; and a
\* section whose marker is missing is never the whole response.
SectionsComplete ==
  \A r \in SeoReturned :
    LET output == runs[r].calls[4].output
    IN  /\ FollowsFormat(output) =>
              /\ runs[r].out.seo.optimizedContent =
                   SectionOfFormat(output, "[OPTIMIZED CONTENT]")
              /\ runs[r].out.seo.metaDescription =
                   SectionOfFormat(output, "[META DESCRIPTION]")
              /\ runs[r].out.seo.slug = SectionOfFormat(output, "[SLUG]")
        /\ IndexOf(output, {"[OPTIMIZED CONTENT]"}, 1) = 0 =>
              runs[r].out.seo.optimizedContent # output
        /\ IndexOf(output, {"[SLUG]"}, 1) = 0 =>
              runs[r].out.seo.slug # output

\* C28, the part that holds: of a response in the prompted format whose
\* [OPTIMIZED CONTENT] section holds no '[', the optimized content is the
\* complete section.
SectionsCompleteWithoutBracket ==
  \A r \in SeoReturned :
    LET output == runs[r].calls[4].output
        section == SectionOfFormat(output, "[OPTIMIZED CONTENT]")
    IN  (FollowsFormat(output) /\ \A i \in DOMAIN section :
                                     section[i] \notin BracketTokens) =>
          runs[r].out.seo.optimizedContent = section

\* The characters of a URL-safe slug: lowercase letters, digits and single
\* hyphens, none of them leading or trailing.
UrlSafe(slug) ==
  /\ \A i \in DOMAIN slug : slug[i] \in LowerAlnum \cup {"-"}
  /\ slug # <<>> => slug[1] # "-" /\ slug[Len(slug)] # "-"
  /\ \A i \in 1..(Len(slug) - 1) : ~(slug[i] = "-" /\ slug[i + 1] = "-")

\* The runs whose publisher stage has returned.
Published ==
  {r \in DOMAIN runs :
     Len(runs[r].calls) >= 5 /\ runs[r].calls[5].ret = "ok"}

\* C29, as stated: the slug in the metadata of every published result is
\* URL-safe, whatever the topic and whatever the SEO stage returned.
SlugUrlSafe ==
  \A r \in Published : UrlSafe(runs[r].out.markdown.metadata.slug)

\* C29, the part that holds: the slug made of the topic, used when the SEO
\* stage gave an empty slug, is URL-safe.
FallbackSlugUrlSafe ==
  \A r \in Published :
    runs[r].out.seo.slug = NoText =>
      /\ runs[r].out.markdown.metadata.slug = CreateSlug(runs[r].topic)
      /\ UrlSafe(runs[r].out.markdown.metadata.slug)

\* The successful answer of POST /api/generate.
GenerateSuccess ==
  resp.route = "POST /api/generate" /\ resp.code = 200 /\ resp.body.success

\* C30, as stated: in a successful answer of POST /api/generate the reading
\* time of the top-level metadata equals the readingTime of
\* markdown.metadata, and both are at least 1.
ReadingTimesAgree ==
  GenerateSuccess =>
    /\ resp.body.metadata.readingTime =
         resp.body.markdown.metadata.readingTime
    /\ resp.body.metadata.readingTime >= 1
    /\ resp.body.markdown.metadata.readingTime >= 1

\* C30, the part that holds: both reading times are at least 1 and are made
\* of the same word count.
ReadingTimesAtLeastOne ==
  GenerateSuccess =>
    /\ resp.body.metadata.readingTime >= 1
    /\ resp.body.markdown.metadata.readingTime >= 1
    /\ resp.body.metadata.wordCount = resp.body.markdown.metadata.wordCount

============================================================================
